---- MODULE Spec2Model ----
(***************************************************************************)
(* smartthings_exporter: the attribute-to-metric translation of            *)
(* Exporter.Collect (src/smartthings_exporter.go).                         *)
(*                                                                         *)
(* A raw attribute value (Go interface{} decoded from JSON) is a tagged    *)
(* record: nil, string, float64 or bool.  float64 values are modelled by   *)
(* the integers, which float64 represents exactly in the range used here.  *)
(***************************************************************************)
EXTENDS Bags, FiniteSets, Integers, Sequences, TLC

\* ---------------------------------------------------------------- values
Nil == [t |-> "nil", s |-> "", n |-> 0]

Str(x) == [t |-> "str", s |-> x, n |-> 0]

Num(x) == [t |-> "num", s |-> "", n |-> x]

Bool(x) == [t |-> "bool", s |-> "", n |-> x]

\* ------------------------------------------------------- package globals
namespace == "smartthings"

valOpenClosed == <<"open", "closed">>

valLockedUnlocked == <<"locked", "unlocked">>

valInactiveActive == <<"inactive", "active">>

valAbsentPresent == <<"not present", "present">>

valOffOn == <<"off", "on">>

\* The keys of the map literal metricsToDrop.
DropKeys ==
  {
    "DeviceWatch-DeviceStatus", "DeviceWatch-Enroll", "numberOfButtons", "color",
    "colorName", "button", "indicatorStatus", "supportedButtonValues",
    "bulbTemp", "status", "threeAxis", "acceleration",
    "door", "curZoneIsCycling", "curZoneCycleCount", "controllerOn",
    "rainDelay", "curZoneNumber", "curZoneWaterTime", "rainDelayStr",
    "hardwareModel", "hardwareDesc", "activeZoneCnt", "curZoneRunStatus",
    "standbyMode", "curZoneName", "curZoneDuration", "curZoneStartDate",
    "zoneSquareFeet", "efficiency", "indicashadeNametorStatus", "zoneName",
    "saturatedDepthOfWater", "zoneNumber", "watering", "zoneTotalDuration",
    "rootZoneDepth", "zoneWaterTime", "depthOfWater", "zoneElapsed",
    "slopeName", "cropName", "availableWater", "nozzleName",
    "maxRuntime", "zoneDuration", "zoneStartDate", "zoneCycleCount",
    "inStandby", "lastUpdatedDt", "scheduleType", "shadeName",
    "valve", "soilName", "image", "statusMessage",
    "mute", "hubactionMode", "switch2", "switch3",
    "switch4", "switch5", "switch6", "captureTime",
    "camera", "settings", "stream", "clip",
    "nightVision", "powerManagement", "desiredCameraState", "ruleId",
    "sound", "invertImage", "offline", "rssi",
    "active", "timeLastRefresh", "lqi", "clipStatus",
    "occupancy", "occupancyIconURL", "countdown", "batteryStatus",
    "tamper", "powerSource"
  }

\* metricsToDrop[k]: a Go map lookup, "" (the zero value) for an absent key.
metricsToDrop(k) == IF k \in DropKeys THEN "stuff here" ELSE ""

\* prometheus.BuildFQName(namespace, "", name)
BuildFQName(ns, name) == ns \o "_" \o name

\* ---------------------------------------------------------- value mappers
\* A mapper returns (float64, error); e = "nil" is the nil error.
Ok(x) == [f |-> x, e |-> "nil"]

Err(kind) == [f |-> 0, e |-> kind]

valueClearSwapped(v) ==
  IF v.t # "str" THEN Err("non-string")
  ELSE IF v.s = "clear" THEN Ok(1) ELSE Ok(0)

valueClear(v) ==
  IF v.t # "str" THEN Err("non-string")
  ELSE IF v.s = "clear" THEN Ok(0) ELSE Ok(1)

valueOneOfSwapped(v, options) ==
  IF v.t # "str" THEN Err("non-string")
  ELSE IF v.s = options[2] THEN Ok(0)
  ELSE IF v.s = options[1] THEN Ok(1)
  ELSE Err("invalid option")

valueOneOf(v, options) ==
  IF v.t # "str" THEN Err("non-string")
  ELSE IF v.s = options[1] THEN Ok(0)
  ELSE IF v.s = options[2] THEN Ok(1)
  ELSE Err("invalid option")

valueFloatNoEmpty(v) ==
  IF v.t # "num" THEN Err("non floating-point") ELSE Ok(v.n)

valueFloat(v) ==
  IF v.t = "str" /\ v.s = "" THEN Ok(0)
  ELSE IF v.t # "num" THEN Err("non floating-point")
  ELSE Ok(v.n)

\* The closure registered for "energy": kWh to joules.
energyMapper(v) ==
  LET r == valueFloat(v)
  IN IF r.e # "nil" THEN Err(r.e) ELSE Ok(r.f * 3600000)

\* ------------------------------------------------------- metric registry
\* A *metric: description (the fully qualified name of its Desc) and the
\* valueMapper, named by its rule; options is the pair of a valueOneOf
\* closure.
Metric(name, rule, options) ==
  [description |-> BuildFQName(namespace, name), rule |-> rule,
   options |-> options]

\* The nil *metric a lookup of an absent key yields.
NoMetric == [description |-> "", rule |-> "nil", options |-> <<>>]

MetricKeys ==
  {
    "alarm", "alarmState", "battery", "carbonMonoxide", "contact",
    "energy", "humidity", "fanSpeed", "illuminance", "level", "lock",
    "motion", "power", "presence", "pressure", "smoke", "switch",
    "temperature", "ultravioletIndex", "speed", "heading", "longitude",
    "latitude", "odometer", "batteryRange", "healthStatus", "hue",
    "saturation", "whiteLevel", "checkInterval", "colorTemperature"
  }

registry(k) ==
  CASE k = "alarm" -> Metric("alarm", "oneOf", valOffOn)
    [] k = "alarmState" -> Metric("alarm_cleared", "clear", <<>>)
    [] k = "battery" -> Metric("battery_percentage", "float", <<>>)
    [] k = "carbonMonoxide" -> Metric("contact_closed", "clear", <<>>)
    [] k = "contact" -> Metric("contact_closed", "oneOf", valOpenClosed)
    [] k = "energy" -> Metric("energy_usage_joules", "energy", <<>>)
    [] k = "humidity" -> Metric("humidity_level", "float", <<>>)
    [] k = "fanSpeed" -> Metric("fan_level", "float", <<>>)
    [] k = "illuminance" -> Metric("lux_level", "float", <<>>)
    [] k = "level" -> Metric("level_percent", "float", <<>>)
    [] k = "lock" -> Metric("locked", "oneOf", valLockedUnlocked)
    [] k = "motion" -> Metric("motion_detected", "oneOf", valInactiveActive)
    [] k = "power" -> Metric("power_usage_watts", "float", <<>>)
    [] k = "presence" -> Metric("presence_detected", "oneOf", valAbsentPresent)
    [] k = "pressure" -> Metric("pressure_pascals", "float", <<>>)
    [] k = "smoke" -> Metric("smoke_detected", "clear", <<>>)
    [] k = "switch" -> Metric("switch_enabled", "oneOf", valOffOn)
    [] k = "temperature" -> Metric("temperature_fahrenheit", "float", <<>>)
    [] k = "ultravioletIndex" -> Metric("ultraviolet_index", "float", <<>>)
    [] k = "speed" -> Metric("speed_miles_per_hour", "float", <<>>)
    [] k = "heading" -> Metric("heading", "float", <<>>)
    [] k = "longitude" -> Metric("longitude", "float", <<>>)
    [] k = "latitude" -> Metric("latitude", "float", <<>>)
    [] k = "odometer" -> Metric("odometer", "float", <<>>)
    [] k = "batteryRange" -> Metric("battery_range", "float", <<>>)
    [] k = "healthStatus" -> Metric("healthStatus", "float", <<>>)
    [] k = "hue" -> Metric("hue", "float", <<>>)
    [] k = "saturation" -> Metric("saturation", "float", <<>>)
    [] k = "whiteLevel" -> Metric("whiteLevel", "float", <<>>)
    [] k = "checkInterval" -> Metric("checkInterval", "float", <<>>)
    [] k = "colorTemperature" -> Metric("colorTemperature", "float", <<>>)

\* A lookup that folds the case of the first letter (not Go's map lookup).
metricsFoldCase(k) ==
  IF k \in MetricKeys THEN registry(k)
  ELSE IF k = "Battery" THEN registry("battery")
  ELSE NoMetric

\* metrics[k]: a Go map lookup, nil for an absent key.
metrics(k) == IF k \in MetricKeys THEN registry(k) ELSE NoMetric

\* metric.valueMapper(val)
valueMapper(metric, val) ==
  CASE metric.rule = "clear" -> valueClear(val)
    [] metric.rule = "oneOf" -> valueOneOf(val, metric.options)
    [] metric.rule = "float" -> valueFloat(val)
    [] metric.rule = "energy" -> energyMapper(val)

\* ------------------------------------------------------------ loop body
\* if val == nil { val = "" }
nilKept(raw) == raw

nilToEmpty(raw) == IF raw = Nil THEN Str("") ELSE raw

\* prometheus.MustNewConstMetric(metric.description, GaugeValue, value,
\* dev.ID, dev.DisplayName)
Sample(metric, value, dev) ==
  [desc |-> metric.description, id |-> dev.ID, name |-> dev.DisplayName,
   value |-> value]

\* What one pass of the loop body does: the counter it increments, the
\* samples it sends on ch (none or one), whether it invoked a value mapper
\* and how many plog.Errorf calls it made.
Effect(d, u, i, emit, mapped) ==
  [dropped |-> d, unknown |-> u, invalid |-> i, emit |-> emit,
   mapped |-> mapped, errors |-> i]

\* The registry lookup and what follows it, for a value val (never nil).
Lookup(dev, k, val) ==
  LET metric == metrics(k)
  IN IF metric = NoMetric THEN Effect(0, 1, 0, <<>>, 0)
     ELSE LET r == valueMapper(metric, val)
          IN IF r.e = "nil"
             THEN Effect(0, 0, 0, <<Sample(metric, r.f, dev)>>, 1)
             ELSE Effect(0, 0, 1, <<>>, 1)

\* The loop body without the continue of the dropped branch.
IterationFallThrough(dev, k, raw) ==
  LET val == nilToEmpty(raw)
      l == Lookup(dev, k, val)
  IN IF metricsToDrop(k) # ""
     THEN [l EXCEPT !.dropped = 1]
     ELSE l

Iteration(dev, k, raw) ==
  LET val == nilToEmpty(raw)
      toDrop == metricsToDrop(k)
  IN IF toDrop # "" THEN Effect(1, 0, 0, <<>>, 0)
     ELSE Lookup(dev, k, val)

\* ---------------------------------------------------------------- inputs
\* gosmart.DeviceInfo: ID, DisplayName and the Attributes map.
Dev(id, name, attrs) == [ID |-> id, DisplayName |-> name, Attributes |-> attrs]

NoAttrs == [k \in {} |-> Nil]

UnknownKeys == {"", "Battery", "Contact", "COLOR", "weirdAttr"}

Names == DropKeys \cup MetricKeys \cup UnknownKeys

Strings ==
  {"", "clear", "triggered", "bogus", "ajar", "55", "x", "red"}
    \cup {o[i] : o \in {valOpenClosed, valLockedUnlocked, valInactiveActive,
                        valAbsentPresent, valOffOn}, i \in {1, 2}}

Numbers == {-1, 0, 2, 5, 55}

RawValues ==
  {Nil, Bool(1)} \cup {Str(s) : s \in Strings} \cup {Num(n) : n \in Numbers}

\* Device lists of one device with one attribute.
SingleSnapshots ==
  {<<Dev("1", "Front Door", [a \in {k} |-> v])>> : k \in Names, v \in RawValues}

FrontDoor ==
  Dev("1", "Front Door", ("contact" :> Str("closed")) @@ ("color" :> Str("red")))

Hub == Dev("2", "Hub", ("battery" :> Nil) @@ ("weirdAttr" :> Str("x")))

Sensor ==
  Dev("3", "Sensor",
      ("contact" :> Str("ajar")) @@ ("carbonMonoxide" :> Str("clear"))
        @@ ("energy" :> Num(2)))

Bare == Dev("4", "Bare", NoAttrs)

Detector ==
  Dev("5", "Detector",
      ("carbonMonoxide" :> Str("clear")) @@ ("contact" :> Str("closed")))

\* Device lists of several devices and attributes.
Snapshots == {<<FrontDoor, Hub>>, <<Bare, Sensor>>, <<Detector>>, <<>>}

\* The scrapes the HTTP server may run at the same time.
Procs == {"c1", "c2"}

\* The number of scrapes a behaviour starts.
MaxCycles == 3

\* ----------------------------------------------------------------- state
VARIABLES
  droppedMetric,  \* the counter smartthings_dropped_metric
  unknownMetric,  \* the counter smartthings_unknown_metric
  invalidMetric,  \* the counter smartthings_invalid_metric
  upstream,       \* the device list the platform holds
  pc,             \* per scrape: "idle", "loop" (in Collect), "done"
  devs,           \* per scrape: devs of Collect
  failed,         \* per scrape: GetAllDevices returned an error
  di,             \* per scrape: index of dev in range devs (0: before)
  remaining,      \* per scrape: keys of dev.Attributes still to visit
  ch,             \* per scrape: the metrics sent on ch, a bag
  errLog,         \* per scrape: the number of plog.Errorf calls
  mapperCalls,    \* per scrape: the number of valueMapper calls
  visits,         \* per scrape: the (device index, key) pairs visited
  own,            \* per scrape: the Inc calls it made, per counter
  base,           \* per scrape: the counters when it started
  settled,        \* the Inc calls of the scrapes that were served
  last,           \* the last served scrape whose listing succeeded
  cycles          \* the number of scrapes started

counterVars == <<droppedMetric, unknownMetric, invalidMetric>>

localVars ==
  <<pc, devs, failed, di, remaining, ch, errLog, mapperCalls, visits, own,
    base>>

vars ==
  <<droppedMetric, unknownMetric, invalidMetric, upstream, pc, devs, failed,
    di, remaining, ch, errLog, mapperCalls, visits, own, base, settled, last,
    cycles>>

Zero == [dropped |-> 0, unknown |-> 0, invalid |-> 0]

Counters ==
  [dropped |-> droppedMetric, unknown |-> unknownMetric,
   invalid |-> invalidMetric]

Plus(a, b) ==
  [dropped |-> a.dropped + b.dropped, unknown |-> a.unknown + b.unknown,
   invalid |-> a.invalid + b.invalid]

NoRun == [valid |-> FALSE, devs |-> <<>>, ch |-> EmptyBag, own |-> Zero,
          after |-> Zero]

InitWith(lists) ==
  /\ droppedMetric = 0
  /\ unknownMetric = 0
  /\ invalidMetric = 0
  /\ upstream \in lists
  /\ pc = [p \in Procs |-> "idle"]
  /\ devs = [p \in Procs |-> <<>>]
  /\ failed = [p \in Procs |-> FALSE]
  /\ di = [p \in Procs |-> 0]
  /\ remaining = [p \in Procs |-> {}]
  /\ ch = [p \in Procs |-> EmptyBag]
  /\ errLog = [p \in Procs |-> 0]
  /\ mapperCalls = [p \in Procs |-> 0]
  /\ visits = [p \in Procs |-> EmptyBag]
  /\ own = [p \in Procs |-> Zero]
  /\ base = [p \in Procs |-> Zero]
  /\ settled = Zero
  /\ last = NoRun
  /\ cycles = 0

Init == InitWith(Snapshots)

InitSeq == InitWith(Snapshots \cup SingleSnapshots)

\* --------------------------------------------------------------- actions
\* Counter.Inc() of the counter called name, by scrape p: its new value.
\* IncStale adds one to what p saw when it started; IncPerCycle counts
\* only p's own calls.
IncStale(p, name) == base[p][name] + own[p][name] + 1

IncPerCycle(p, name) == own[p][name] + 1

Inc(p, name) == Counters[name] + 1

\* Entry of Collect: the locals after the GetAllDevices call returned list.
Begin(p, list, isErr) ==
  /\ pc[p] = "idle"
  /\ cycles < MaxCycles
  /\ cycles' = cycles + 1
  /\ pc' = [pc EXCEPT ![p] = "loop"]
  /\ devs' = [devs EXCEPT ![p] = list]
  /\ failed' = [failed EXCEPT ![p] = isErr]
  /\ errLog' = [errLog EXCEPT ![p] = IF isErr THEN 1 ELSE 0]
  /\ di' = [di EXCEPT ![p] = 0]
  /\ remaining' = [remaining EXCEPT ![p] = {}]
  /\ ch' = [ch EXCEPT ![p] = EmptyBag]
  /\ mapperCalls' = [mapperCalls EXCEPT ![p] = 0]
  /\ visits' = [visits EXCEPT ![p] = EmptyBag]
  /\ own' = [own EXCEPT ![p] = Zero]
  /\ base' = [base EXCEPT ![p] = Counters]
  /\ UNCHANGED <<upstream, settled, last>>

\* GetAllDevices succeeds: devs is the platform's device list.
GetAllDevicesOk(p) ==
  /\ Begin(p, upstream, FALSE)
  /\ UNCHANGED counterVars

\* A failed listing counted as an invalid metric.
GetAllDevicesErrCounted(p) ==
  /\ Begin(p, <<>>, TRUE)
  /\ invalidMetric' = invalidMetric + 1
  /\ UNCHANGED <<droppedMetric, unknownMetric>>

\* GetAllDevices fails: err is logged with plog.Errorf and Collect goes on
\* to range over devs, the nil slice returned along with the error.
GetAllDevicesErr(p) ==
  /\ Begin(p, <<>>, TRUE)
  /\ UNCHANGED counterVars

\* for _, dev := range devs: the next device, if any.
NextDev(p) ==
  /\ pc[p] = "loop"
  /\ remaining[p] = {}
  /\ di[p] < Len(devs[p])
  /\ di' = [di EXCEPT ![p] = di[p] + 1]
  /\ remaining' = [remaining EXCEPT ![p] = DOMAIN devs[p][di[p] + 1].Attributes]
  /\ UNCHANGED <<counterVars, upstream, pc, devs, failed, ch, errLog,
                 mapperCalls, visits, own, base, settled, last, cycles>>

\* The keys left to range over after the pass for k; RestBreak leaves the
\* loop over the attributes on an invalid value.
RestBreak(rem, k, eff) == IF eff.invalid = 1 THEN {} ELSE rem \ {k}

Rest(rem, k, eff) == rem \ {k}

\* for k, val := range dev.Attributes: one pass of the body, for a key the
\* map iteration yields (in any order).
Attr(p) ==
  /\ pc[p] = "loop"
  /\ \E k \in remaining[p] :
       LET dev == devs[p][di[p]]
           eff == Iteration(dev, k, dev.Attributes[k])
       IN /\ droppedMetric' =
               IF eff.dropped = 1 THEN Inc(p, "dropped") ELSE droppedMetric
          /\ unknownMetric' =
               IF eff.unknown = 1 THEN Inc(p, "unknown") ELSE unknownMetric
          /\ invalidMetric' =
               IF eff.invalid = 1 THEN Inc(p, "invalid") ELSE invalidMetric
          /\ ch' = [ch EXCEPT ![p] =
                      IF eff.emit = <<>> THEN ch[p]
                      ELSE ch[p] (+) SetToBag({eff.emit[1]})]
          /\ errLog' = [errLog EXCEPT ![p] = errLog[p] + eff.errors]
          /\ mapperCalls' = [mapperCalls EXCEPT ![p] = mapperCalls[p] + eff.mapped]
          /\ visits' = [visits EXCEPT ![p] = visits[p] (+) SetToBag({<<di[p], k>>})]
          /\ own' = [own EXCEPT ![p] =
                       Plus(own[p], [dropped |-> eff.dropped,
                                     unknown |-> eff.unknown,
                                     invalid |-> eff.invalid])]
          /\ remaining' = [remaining EXCEPT ![p] = Rest(remaining[p], k, eff)]
  /\ UNCHANGED <<upstream, pc, devs, failed, di, base, settled, last, cycles>>

\* Both loops are exhausted: Collect returns.
Return(p) ==
  /\ pc[p] = "loop"
  /\ remaining[p] = {}
  /\ di[p] = Len(devs[p])
  /\ pc' = [pc EXCEPT ![p] = "done"]
  /\ UNCHANGED <<counterVars, upstream, devs, failed, di, remaining, ch,
                 errLog, mapperCalls, visits, own, base, settled, last, cycles>>

\* The metrics handler has served the scrape: its channel and the locals
\* of Collect are gone.
Served(p) ==
  /\ pc[p] = "done"
  /\ pc' = [pc EXCEPT ![p] = "idle"]
  /\ settled' = Plus(settled, own[p])
  /\ last' = IF failed[p] THEN last
             ELSE [valid |-> TRUE, devs |-> devs[p], ch |-> ch[p],
                   own |-> own[p], after |-> Counters]
  /\ devs' = [devs EXCEPT ![p] = <<>>]
  /\ failed' = [failed EXCEPT ![p] = FALSE]
  /\ di' = [di EXCEPT ![p] = 0]
  /\ ch' = [ch EXCEPT ![p] = EmptyBag]
  /\ errLog' = [errLog EXCEPT ![p] = 0]
  /\ mapperCalls' = [mapperCalls EXCEPT ![p] = 0]
  /\ visits' = [visits EXCEPT ![p] = EmptyBag]
  /\ own' = [own EXCEPT ![p] = Zero]
  /\ base' = [base EXCEPT ![p] = Zero]
  /\ UNCHANGED <<counterVars, upstream, remaining, cycles>>

\* The platform's devices change between two listings.
UpstreamChange ==
  /\ upstream' \in Snapshots \ {upstream}
  /\ UNCHANGED <<counterVars, localVars, settled, last, cycles>>

Scrape(p) ==
  \/ GetAllDevicesOk(p)
  \/ GetAllDevicesErr(p)
  \/ NextDev(p)
  \/ Attr(p)
  \/ Return(p)
  \/ Served(p)

\* Concurrent scrapes of a changing platform.
Next == UpstreamChange \/ \E p \in Procs : Scrape(p)

Spec == Init /\ [][Next]_vars

\* One scrape at a time of a platform that does not change.
NextSeq == Scrape("c1")

SpecSeq == InitSeq /\ [][NextSeq]_vars

\* ------------------------------------------------------ what is expected
Done(p) == pc[p] = "done"

\* The (device index, key) pairs of a device list.
AllPairs(list) ==
  UNION {{<<i, k>> : k \in DOMAIN list[i].Attributes} : i \in 1..Len(list)}

EffOf(list, pr) == Iteration(list[pr[1]], pr[2], list[pr[1]].Attributes[pr[2]])

\* The increments a scrape of list makes when it runs alone.
ExpectedCounts(list) ==
  [dropped |-> Cardinality({pr \in AllPairs(list) : EffOf(list, pr).dropped = 1}),
   unknown |-> Cardinality({pr \in AllPairs(list) : EffOf(list, pr).unknown = 1}),
   invalid |-> Cardinality({pr \in AllPairs(list) : EffOf(list, pr).invalid = 1})]

\* The bag of samples a scrape of list emits when it runs alone.
ExpectedSamples(list) ==
  LET conv == {pr \in AllPairs(list) : EffOf(list, pr).emit # <<>>}
  IN [s \in {EffOf(list, pr).emit[1] : pr \in conv} |->
        Cardinality({pr \in conv : EffOf(list, pr).emit = <<s>>})]

\* A finished scrape of one device with one attribute, whose listing
\* succeeded: its key, its raw value and its results.
Single(p) ==
  /\ Done(p)
  /\ ~failed[p]
  /\ Len(devs[p]) = 1
  /\ Cardinality(DOMAIN devs[p][1].Attributes) = 1

KeyOf(p) == CHOOSE k \in DOMAIN devs[p][1].Attributes : TRUE

RawOf(p) == devs[p][1].Attributes[KeyOf(p)]

\* p incremented exactly the counters of delta, once each, and no other.
Counted(p, delta) == own[p] = delta /\ Counters = Plus(base[p], delta)

\* p emitted exactly one sample, for its device, of this metric and value.
Emitted(p, name, value) ==
  ch[p] = SetToBag({[desc |-> BuildFQName(namespace, name), id |-> devs[p][1].ID,
                     name |-> devs[p][1].DisplayName, value |-> value]})

Converted(p, name, value) == Emitted(p, name, value) /\ Counted(p, Zero)

Invalid(p) ==
  /\ ch[p] = EmptyBag
  /\ Counted(p, [Zero EXCEPT !.invalid = 1])
  /\ errLog[p] = 1

\* The description each registered key is declared with.
DescOf(k) == registry(k).description

\* ----------------------------------------------------------------- C1
\* C1: an attribute whose name is in the drop set is Dropped whatever its
\* raw value: the dropped counter grows by one, no sample is emitted, no
\* other counter moves and no value mapper runs.
C1_DropPrecedence ==
  \A p \in Procs :
    (Single(p) /\ KeyOf(p) \in DropKeys) =>
      /\ Counted(p, [Zero EXCEPT !.dropped = 1])
      /\ ch[p] = EmptyBag
      /\ mapperCalls[p] = 0
      /\ errLog[p] = 0

C1_Witness ==
  \E p \in Procs :
    /\ Single(p)
    /\ KeyOf(p) = "door"
    /\ RawOf(p) = Num(5)
    /\ droppedMetric = 2

\* ----------------------------------------------------------------- C4
\* C4 (as claimed): with an absent raw value only the float rules convert,
\* to 0.0; the clear/not-clear and the enumerated pair rules yield Invalid.
C4_Original ==
  \A p \in Procs :
    (Single(p) /\ RawOf(p) = Nil /\ KeyOf(p) \in MetricKeys \ DropKeys) =>
      IF registry(KeyOf(p)).rule \in {"float", "energy"}
      THEN /\ ch[p] = SetToBag({Sample(registry(KeyOf(p)), 0, devs[p][1])})
           /\ Counted(p, Zero)
      ELSE Invalid(p)

\* C4 (amended): an absent raw value is handled as the empty string and is
\* no error by itself: a dropped or unknown name stays Dropped or Unknown,
\* the float rules convert it to 0.0, the clear/not-clear rule converts it
\* to 1.0 (the empty string is a string other than "clear"), and only the
\* enumerated pair rule yields Invalid.
C4_MissingValue ==
  \A p \in Procs :
    (Single(p) /\ RawOf(p) = Nil) =>
      LET k == KeyOf(p)
      IN CASE k \in DropKeys -> own[p].invalid = 0 /\ errLog[p] = 0
           [] k \in {"alarmState", "carbonMonoxide", "smoke"} ->
                Converted(p, IF k = "alarmState" THEN "alarm_cleared"
                             ELSE IF k = "smoke" THEN "smoke_detected"
                             ELSE "contact_closed", 1)
           [] k \in {"alarm", "switch", "contact", "lock", "motion", "presence"} ->
                Invalid(p)
           [] k \in MetricKeys \ {"alarmState", "carbonMonoxide", "smoke", "alarm",
                                  "switch", "contact", "lock", "motion", "presence"} ->
                ch[p] = SetToBag({[desc |-> DescOf(k), id |-> "1",
                                   name |-> "Front Door", value |-> 0]})
                  /\ Counted(p, Zero) /\ errLog[p] = 0
           [] OTHER -> own[p].invalid = 0 /\ errLog[p] = 0

C4_Witness ==
  \E p \in Procs :
    /\ Single(p)
    /\ RawOf(p) = Nil
    /\ KeyOf(p) = "smoke"
    /\ ch[p] # EmptyBag

\* ----------------------------------------------------------------- C5
\* C5: an attribute whose name is neither in the drop set nor in the metric
\* registry (exact, case-sensitive match; the empty name included) is
\* Unknown whatever its raw value: the unknown counter grows by one, no
\* sample is emitted, no value mapper runs, no other counter moves.
C5_Unknown ==
  \A p \in Procs :
    (Single(p) /\ KeyOf(p) \notin DropKeys /\ KeyOf(p) \notin MetricKeys) =>
      /\ Counted(p, [Zero EXCEPT !.unknown = 1])
      /\ ch[p] = EmptyBag
      /\ mapperCalls[p] = 0
      /\ errLog[p] = 0

C5_Witness ==
  \E p \in Procs :
    /\ Single(p)
    /\ KeyOf(p) = "Battery"
    /\ RawOf(p) = Num(55)
    /\ unknownMetric = 1

\* The value the mapper of a registered key is handed: the raw value, an
\* absent one being the empty string (C4).
Absent(raw) == raw = Nil \/ raw = Str("")

\* ----------------------------------------------------------------- C8
\* C8: the attributes wired to an option pair are alarm and switch
\* (off/on), contact (open/closed), lock (locked/unlocked), motion
\* (inactive/active) and presence (not present/present); the first option
\* converts to 0.0, the second to 1.0, any other string and any non-string
\* value is Invalid: invalid counter +1 and no sample.
C8_Pair(k) ==
  CASE k \in {"alarm", "switch"} -> <<"off", "on">>
    [] k = "contact" -> <<"open", "closed">>
    [] k = "lock" -> <<"locked", "unlocked">>
    [] k = "motion" -> <<"inactive", "active">>
    [] k = "presence" -> <<"not present", "present">>

C8_Name(k) ==
  CASE k = "alarm" -> "alarm"
    [] k = "switch" -> "switch_enabled"
    [] k = "contact" -> "contact_closed"
    [] k = "lock" -> "locked"
    [] k = "motion" -> "motion_detected"
    [] k = "presence" -> "presence_detected"

C8_EnumeratedPair ==
  \A p \in Procs :
    (Single(p)
       /\ \/ KeyOf(p) \in {"alarm", "switch", "contact", "lock", "motion", "presence"}
          \/ KeyOf(p) \in MetricKeys /\ registry(KeyOf(p)).rule = "oneOf") =>
      LET k == KeyOf(p)
          raw == RawOf(p)
      IN /\ k \in {"alarm", "switch", "contact", "lock", "motion", "presence"}
         /\ mapperCalls[p] = 1
         /\ IF raw = Str(C8_Pair(k)[1]) THEN Converted(p, C8_Name(k), 0)
            ELSE IF raw = Str(C8_Pair(k)[2]) THEN Converted(p, C8_Name(k), 1)
            ELSE Invalid(p)

C8_Witness ==
  \E p \in Procs :
    /\ Single(p)
    /\ KeyOf(p) = "lock"
    /\ RawOf(p) = Str("unlocked")
    /\ Emitted(p, "locked", 1)

\* ----------------------------------------------------------------- C9
\* C9: for an attribute wired to the float rule the empty string (which an
\* absent value has become) converts to 0.0, a number converts to itself
\* and any other value is Invalid; for energy the result is multiplied by
\* 3,600,000 and what the float rule rejects is Invalid, with no sample.
C9_FloatKeys ==
  {"battery", "humidity", "fanSpeed", "illuminance", "level", "power",
   "pressure", "temperature", "ultravioletIndex", "speed", "heading",
   "longitude", "latitude", "odometer", "batteryRange", "healthStatus",
   "hue", "saturation", "whiteLevel", "checkInterval", "colorTemperature"}

C9_Float ==
  \A p \in Procs :
    (Single(p) /\ KeyOf(p) \in MetricKeys
       /\ registry(KeyOf(p)).rule \in {"float", "energy"}) =>
      LET k == KeyOf(p)
          raw == RawOf(p)
          factor == IF k = "energy" THEN 3600000 ELSE 1
          sample(v) == ch[p] = SetToBag({[desc |-> DescOf(k), id |-> "1",
                                          name |-> "Front Door", value |-> v]})
                         /\ Counted(p, Zero)
      IN /\ k \in C9_FloatKeys \cup {"energy"}
         /\ (k = "battery" => DescOf(k) = "smartthings_battery_percentage")
         /\ (k = "energy" => DescOf(k) = "smartthings_energy_usage_joules")
         /\ mapperCalls[p] = 1
         /\ IF Absent(raw) THEN sample(0)
            ELSE IF raw.t = "num" THEN sample(raw.n * factor)
            ELSE Invalid(p)
         /\ (k = "energy" /\ raw = Num(2) => sample(7200000))

C9_Witness ==
  \E p \in Procs :
    /\ Single(p)
    /\ KeyOf(p) = "energy"
    /\ RawOf(p) = Num(2)
    /\ Emitted(p, "energy_usage_joules", 7200000)

\* ---------------------------------------------------------------- C10
\* C10: for alarmState, carbonMonoxide and smoke the string "clear"
\* converts to 0.0, every other string (the empty string of an absent
\* value included) converts to 1.0, and a non-string value such as a
\* number is Invalid: invalid counter +1 and no sample.
C10_Name(k) ==
  CASE k = "alarmState" -> "alarm_cleared"
    [] k = "carbonMonoxide" -> "contact_closed"
    [] k = "smoke" -> "smoke_detected"

C10_Clear ==
  \A p \in Procs :
    (Single(p)
       /\ \/ KeyOf(p) \in {"alarmState", "carbonMonoxide", "smoke"}
          \/ KeyOf(p) \in MetricKeys /\ registry(KeyOf(p)).rule = "clear") =>
      LET k == KeyOf(p)
          raw == RawOf(p)
      IN /\ k \in {"alarmState", "carbonMonoxide", "smoke"}
         /\ mapperCalls[p] = 1
         /\ IF raw = Str("clear") THEN Converted(p, C10_Name(k), 0)
            ELSE IF raw.t = "str" \/ raw = Nil THEN Converted(p, C10_Name(k), 1)
            ELSE Invalid(p)

C10_Witness ==
  \E p \in Procs :
    /\ Single(p)
    /\ KeyOf(p) = "alarmState"
    /\ RawOf(p) = Num(5)
    /\ invalidMetric = 1
    /\ ch[p] = EmptyBag

\* ----------------------------------------------------------------- C2
\* C2: a scrape whose device listing fails emits no sample, makes no Inc
\* call, logs one error, visits nothing and runs to its return; none of
\* its steps changes a counter, so that a scrape whose listing succeeds
\* ends with the samples and increments of its own device list alone.
\* (C2_Witness: two scrapes were started, the one of c1 was served and left
\* no successful run behind, so it failed; the one of c2 succeeded.)
C2_State ==
  \A p \in Procs :
    /\ failed[p] =>
         /\ pc[p] \in {"loop", "done"}
         /\ ch[p] = EmptyBag
         /\ own[p] = Zero
         /\ errLog[p] = 1
         /\ mapperCalls[p] = 0
         /\ visits[p] = EmptyBag
         /\ (pc[p] = "loop" => remaining[p] = {} /\ di[p] = Len(devs[p]))
    /\ (Done(p) /\ ~failed[p]) =>
         /\ ch[p] = ExpectedSamples(devs[p])
         /\ own[p] = ExpectedCounts(devs[p])

C2_Step ==
  \A p \in Procs :
    (pc'[p] # pc[p] /\ (failed[p] \/ failed'[p])) =>
      /\ UNCHANGED counterVars
      /\ last' = last
      /\ settled' = settled

C2_UpstreamFailure == []C2_State /\ [][C2_Step]_vars

C2_Witness ==
  /\ cycles = 2
  /\ pc["c1"] = "idle"
  /\ ~last.valid
  /\ settled = Zero
  /\ Done("c2")
  /\ ~failed["c2"]
  /\ devs["c2"] = <<FrontDoor, Hub>>
  /\ BagCardinality(ch["c2"]) = 2
  /\ Counters = [dropped |-> 1, unknown |-> 1, invalid |-> 0]

\* ----------------------------------------------------------------- C3
\* C3: a scrape visits each (device, attribute) pair of its device list
\* exactly once, an Invalid attribute included; each visit has exactly one
\* effect: dropped +1, unknown +1, invalid +1 or one sample labelled with
\* the id and display name of the owning device.  The counters never
\* decrease and equal the number of attributes classified so far.
Visited(p) == BagToSet(visits[p])

C3_State ==
  /\ \A p \in Procs :
       /\ Visited(p) \subseteq AllPairs(devs[p])
       /\ \A pr \in Visited(p) : CopiesIn(pr, visits[p]) = 1
       /\ Done(p) => Visited(p) = AllPairs(devs[p])
       /\ own[p].dropped =
            Cardinality({pr \in Visited(p) : EffOf(devs[p], pr).dropped = 1})
       /\ own[p].unknown =
            Cardinality({pr \in Visited(p) : EffOf(devs[p], pr).unknown = 1})
       /\ own[p].invalid =
            Cardinality({pr \in Visited(p) : EffOf(devs[p], pr).invalid = 1})
       /\ BagCardinality(ch[p]) =
            Cardinality({pr \in Visited(p) : EffOf(devs[p], pr).emit # <<>>})
       /\ \A s \in BagToSet(ch[p]) :
            \E pr \in Visited(p) :
              /\ EffOf(devs[p], pr).emit = <<s>>
              /\ s.id = devs[p][pr[1]].ID
              /\ s.name = devs[p][pr[1]].DisplayName
  /\ Counters = Plus(settled, Plus(own["c1"], own["c2"]))

C3_Step ==
  LET grown(p) == BagCardinality(ch'[p]) - BagCardinality(ch[p])
      visit(p) == BagCardinality(visits'[p]) - BagCardinality(visits[p])
  IN /\ droppedMetric' >= droppedMetric
     /\ unknownMetric' >= unknownMetric
     /\ invalidMetric' >= invalidMetric
     /\ \A p \in Procs :
          pc'[p] = pc[p] =>
            /\ visit(p) \in {0, 1}
            /\ grown(p) + (own'[p].dropped - own[p].dropped)
                 + (own'[p].unknown - own[p].unknown)
                 + (own'[p].invalid - own[p].invalid) = visit(p)

C3_Accounting == []C3_State /\ [][C3_Step]_vars

C3_Witness ==
  \E p \in Procs :
    /\ Done(p)
    /\ devs[p] = <<Bare, Sensor>>
    /\ own[p].invalid = 1
    /\ BagCardinality(ch[p]) = 2
    /\ BagCardinality(visits[p]) = 3

\* ----------------------------------------------------------------- C6
\* C6: a scrape of the device list that the previous served scrape read
\* emits the same samples and makes the same increments; the counters
\* accumulate: after it each counter is its value after the previous
\* scrape plus that increment.
C6_Idempotence ==
  \A p \in Procs :
    (Done(p) /\ ~failed[p] /\ last.valid /\ last.devs = devs[p]) =>
      /\ ch[p] = last.ch
      /\ BagToSet(ch[p]) = BagToSet(last.ch)
      /\ own[p] = last.own
      /\ Counters = Plus(last.after, last.own)

C6_Witness ==
  \E p \in Procs :
    /\ Done(p)
    /\ ~failed[p]
    /\ last.valid
    /\ last.devs = devs[p]
    /\ devs[p] = <<FrontDoor, Hub>>
    /\ BagCardinality(ch[p]) = 2
    /\ droppedMetric = 2
    /\ unknownMetric = 2

\* ----------------------------------------------------------------- C7
\* C7: when two scrapes have run, under any interleaving of their steps,
\* each counter is its value before them plus the increments each makes
\* when run alone, and each has emitted the samples it emits when run
\* alone.
C7_Concurrent ==
  (\A p \in Procs : pc[p] \in {"idle", "done"}) =>
     /\ \A p \in Procs :
          Done(p) => /\ ch[p] = ExpectedSamples(devs[p])
                     /\ own[p] = ExpectedCounts(devs[p])
     /\ Counters =
          Plus(settled,
               Plus(IF Done("c1") THEN ExpectedCounts(devs["c1"]) ELSE Zero,
                    IF Done("c2") THEN ExpectedCounts(devs["c2"]) ELSE Zero))

\* Both scrapes started from the same counter values: they overlapped.
C7_Witness ==
  /\ Done("c1")
  /\ Done("c2")
  /\ base["c1"] = base["c2"]
  /\ own["c1"].dropped = 1
  /\ own["c2"].dropped = 1
  /\ droppedMetric = base["c1"].dropped + 2
  /\ own["c1"].invalid = 0
  /\ own["c2"].invalid = 0
  /\ invalidMetric = base["c1"].invalid

\* ---------------------------------------------------------------- C11
\* C11: a scrape of a device list whose device ids are pairwise distinct
\* never emits two samples with the same metric name and the same
\* (device id, device name) labels.
DistinctIds(list) ==
  \A i, j \in 1..Len(list) : list[i].ID = list[j].ID => i = j

C11_UniqueIdentity ==
  \A p \in Procs :
    DistinctIds(devs[p]) =>
      \A s1, s2 \in BagToSet(ch[p]) :
        (s1.desc = s2.desc /\ s1.id = s2.id /\ s1.name = s2.name) =>
          /\ s1 = s2
          /\ CopiesIn(s1, ch[p]) = 1
====
